---- MODULE Spec2Model ----
(***************************************************************************)
(* A model of network_tool.py: the dispatcher main, the routing-data       *)
(* lookup bgp (with get_ip_or_none) and the DNS lookup fqdn.                *)
(*                                                                         *)
(* Encoding of Python values                                               *)
(*   - a str that the code inspects character by character (the --bgp      *)
(*     token) is a tuple of one-character strings; "SUP2" stands for the   *)
(*     single character U+00B2, which str.isdigit accepts and int rejects; *)
(*   - an argparse attribute is <<>> for None and <<v>> for a value v      *)
(*     (nargs=1 stores the list [v]; --bgp stores the str itself);         *)
(*   - a JSON object is a function whose DOMAIN is the set of its keys;    *)
(*   - a message text is a tuple of words, so that `marker in text` is a   *)
(*     test on its words;                                                  *)
(*   - everything console.print / print writes is appended to out.         *)
(***************************************************************************)
EXTENDS Integers, Sequences, FiniteSets, TLC

(* ---------------------------------------------------------------- bounds *)

\* longest data.ipv4_prefixes list the API returns
MaxPrefixes == 2
\* longest data.asns list the API returns
MaxAsns == 2
\* longest prefix_upstreams list of one owning ASN
MaxUpstreams == 2
\* number of record types whose resolution differs from the baseline outcome
MaxDeviations == 1

(* ------------------------------------------------------------- constants *)

BGPVIEW == "https://api.bgpview.io"

HTTP_OK == 200

\* the cell the tables show for a success, a check mark in the source
CHECK == "check"

UNKNOWN == "UNKNOWN"

rdtypes ==
    <<"A", "AAAA", "CNAME", "MX", "NS", "SOA", "PTR", "SRV", "TXT", "CAA", "DS",
      "DNSKEY", "RRSIG", "NSEC", "NSEC3", "NSEC3PARAM">>

(* ----------------------------------------------------- Python primitives *)

EmptyObj == [k \in {} |-> 0]

\* dict.get(key, default)
Get(d, key, default) == IF key \in DOMAIN d THEN d[key] ELSE default

DecimalDigits == {"0", "1", "2", "3", "4", "5", "6", "7", "8", "9"}

\* characters for which str.isdigit is true: the decimal digits and, among
\* others, the superscript digits
DigitChars == DecimalDigits \cup {"SUP2"}

DigitValue(c) ==
    CASE c = "0" -> 0 [] c = "1" -> 1 [] c = "2" -> 2 [] c = "3" -> 3
      [] c = "4" -> 4 [] c = "5" -> 5 [] c = "6" -> 6 [] c = "7" -> 7
      [] c = "8" -> 8 [] c = "9" -> 9

RECURSIVE DecimalValue(_)
DecimalValue(s) ==
    IF s = <<>> THEN 0
    ELSE 10 * DecimalValue(SubSeq(s, 1, Len(s) - 1)) + DigitValue(s[Len(s)])

AllDecimal(s) == s /= <<>> /\ \A i \in 1..Len(s) : s[i] \in DecimalDigits

\* a variant of isdigit that looks at the first character only
isdigit_first_only(s) == s /= <<>> /\ s[1] \in DigitChars

\* str.isdigit(): non-empty and every character a digit character
isdigit(s) == s /= <<>> /\ \A i \in 1..Len(s) : s[i] \in DigitChars

\* int(str): ValueError unless the text is a decimal literal
int_raises(s) == ~AllDecimal(s)

int_value(s) == DecimalValue(s)

RECURSIVE SplitOn(_, _)
\* str.split(sep)
SplitOn(s, sep) ==
    IF \E i \in 1..Len(s) : s[i] = sep
    THEN LET i == CHOOSE j \in 1..Len(s) :
                      s[j] = sep /\ \A k \in 1..(j - 1) : s[k] /= sep
         IN  <<SubSeq(s, 1, i - 1)>> \o SplitOn(SubSeq(s, i + 1, Len(s)), sep)
    ELSE <<s>>

(* ------------------------------------------------ ipaddress.ip_network   *)
(* IPv4, strict: address[/prefixlen]; an octet is 1 to 3 decimal digits    *)
(* without a leading zero and at most 255; the prefix length is decimal    *)
(* and at most 32; no host bit may be set.  The tokens below hold no ':'   *)
(* and no dotted netmask, so the IPv6 and netmask forms are not modelled.  *)

OctetOk(o) ==
    /\ AllDecimal(o)
    /\ Len(o) <= 3
    /\ (Len(o) > 1 => o[1] /= "0")
    /\ DecimalValue(o) <= 255

PrefixLenOk(p) == AllDecimal(p) /\ Len(p) <= 2 /\ DecimalValue(p) <= 32

Pow2(n) == CASE n = 0 -> 1 [] n = 1 -> 2 [] n = 2 -> 4 [] n = 3 -> 8 [] n = 4 -> 16
             [] n = 5 -> 32 [] n = 6 -> 64 [] n = 7 -> 128 [] n = 8 -> 256

\* the number of host bits of octet k under prefix length plen
HostBits(k, plen) ==
    LET net == plen - 8 * (k - 1)
    IN  IF net >= 8 THEN 0 ELSE IF net <= 0 THEN 8 ELSE 8 - net

NoNetwork == [ok |-> FALSE, octets |-> <<0, 0, 0, 0>>, prefixlen |-> 0]

\* ipaddress.ip_network(text): ok = FALSE stands for ValueError
ip_network(s) ==
    LET parts == SplitOn(s, "/")
        octs  == SplitOn(parts[1], ".")
    IN  IF Len(parts) > 2 THEN NoNetwork
        ELSE IF Len(octs) /= 4 \/ \E k \in 1..4 : ~OctetOk(octs[k]) THEN NoNetwork
        ELSE IF Len(parts) = 2 /\ ~PrefixLenOk(parts[2]) THEN NoNetwork
        ELSE LET plen == IF Len(parts) = 2 THEN DecimalValue(parts[2]) ELSE 32
                 o    == [k \in 1..4 |-> DecimalValue(octs[k])]
             IN  IF \E k \in 1..4 : o[k] % Pow2(HostBits(k, plen)) /= 0
                 THEN NoNetwork
                 ELSE [ok |-> TRUE, octets |-> o, prefixlen |-> plen]

\* str(network): the canonical CIDR text
str_network(n) ==
    ToString(n.octets[1]) \o "." \o ToString(n.octets[2]) \o "."
        \o ToString(n.octets[3]) \o "." \o ToString(n.octets[4])
        \o "/" \o ToString(n.prefixlen)

\* get_ip_or_none(ip_str): the network, or None (ok = FALSE) on ValueError
get_ip_or_none(ip_str) == ip_network(ip_str)

(* ----------------------------------------------------------- the inputs *)

\* "15169"
TokAsn == <<"1", "5", "1", "6", "9">>
\* "0042": int gives 42
TokAsnZeros == <<"0", "0", "4", "2">>
\* U+00B2 alone, and "1" followed by U+00B2
TokSup == <<"SUP2">>
TokDigitSup == <<"1", "SUP2">>
\* "8.8.8.0/24"
TokCidr == <<"8", ".", "8", ".", "8", ".", "0", "/", "2", "4">>
\* "8.8.8.8": a bare address, the /32 network
TokHost == <<"8", ".", "8", ".", "8", ".", "8">>
\* "10.0.0.0/8"
TokTen == <<"1", "0", ".", "0", ".", "0", ".", "0", "/", "8">>
\* "8.8.8.8/24": host bits set
TokHostBits == <<"8", ".", "8", ".", "8", ".", "8", "/", "2", "4">>
\* "8.8.8.0/33"
TokLongPrefix == <<"8", ".", "8", ".", "8", ".", "0", "/", "3", "3">>
\* "256.1.1.0"
TokBigOctet == <<"2", "5", "6", ".", "1", ".", "1", ".", "0">>
\* "not-a-token!"
TokGarbage == <<"n", "o", "t", "-", "a", "-", "t", "o", "k", "e", "n", "!">>
\* "": argparse accepts --bgp ""
TokEmpty == <<>>

Tokens ==
    {TokAsn, TokAsnZeros, TokSup, TokDigitSup, TokCidr, TokHost, TokTen,
     TokHostBits, TokLongPrefix, TokBigOctet, TokGarbage, TokEmpty}

\* domain names, as their labels: example.com and NODATA.example.com
FqdnPlain == <<"example", "com">>
FqdnMarker == <<"NODATA", "example", "com">>

Fqdns == {FqdnPlain, FqdnMarker}

\* --nameserver values; argparse accepts --nameserver ""
Nameservers == {"", "8.8.8.8"}

\* what the system's resolver configuration lists
ResolvConfs == {<<>>, <<"192.168.1.1">>, <<"192.168.1.1", "1.1.1.1">>}

SeqsUpTo(S, n) == UNION {[1..k -> S] : k \in 0..n}

(* ---------------------------------------- the routing-data API's answers *)

PrefixEntries ==
    {[name |-> "CF-1", prefix |-> "1.1.1.0/24", cidr |-> 24],
     [name |-> "CF-2", prefix |-> "1.0.0.0/22", cidr |-> 22]}

AsnBodies ==
    {EmptyObj, [data |-> EmptyObj]}
        \cup {[data |-> [ipv4_prefixes |-> ps]] : ps \in SeqsUpTo(PrefixEntries, MaxPrefixes)}

Upstreams == {[asn |-> 174, name |-> "COGENT"], [asn |-> 3356, name |-> "LEVEL3"]}

\* the i-th owning ASN of a response
OwningAsn(i, ups) ==
    [asn |-> 64500 + i, name |-> "NET-" \o ToString(i), description |-> "Network",
     country_code |-> "US", prefix_upstreams |-> ups]

AsnLists ==
    UNION {{[i \in 1..k |-> OwningAsn(i, u[i])] :
                u \in [1..k -> SeqsUpTo(Upstreams, MaxUpstreams)]} : k \in 0..MaxAsns}

Descriptions == {"", "Google LLC"}

PrefixInfos ==
    {[name |-> "GOOGLE", prefix |-> "8.8.8.0/24", ip |-> "8.8.8.0", asns |-> a] :
        a \in AsnLists}
        \cup {[name |-> "GOOGLE", prefix |-> "8.8.8.0/24", ip |-> "8.8.8.0",
               description_short |-> d, asns |-> a] : d \in Descriptions, a \in AsnLists}

PrefixBodies == {EmptyObj} \cup {[data |-> d] : d \in PrefixInfos}

\* requests.get raised a RequestException (connection error, timeout, ...)
TransportFailure ==
    [raised |-> TRUE, error |-> "ConnectionError", status_code |-> 0, json |-> EmptyObj]

HttpAnswer(code, body) ==
    [raised |-> FALSE, error |-> "", status_code |-> code, json |-> body]

ErrorStatuses == {404, 500}

AsnResponses ==
    {TransportFailure} \cup {HttpAnswer(c, EmptyObj) : c \in ErrorStatuses}
        \cup {HttpAnswer(HTTP_OK, b) : b \in AsnBodies}

PrefixResponses ==
    {TransportFailure} \cup {HttpAnswer(c, EmptyObj) : c \in ErrorStatuses}
        \cup {HttpAnswer(HTTP_OK, b) : b \in PrefixBodies}

(* -------------------------------------------------------------- the state *)

VARIABLES
    args,        \* the parsed Namespace
    resolv,      \* the nameservers of the system's resolver configuration
    pc,          \* "main", "bgp", "fqdn", "resolve", "done", or "crashed"
    calls,       \* the pipeline calls main made
    http,        \* the URLs requests.get was called with
    responses,   \* what requests.get returned or raised, per call
    resolved,    \* the resolver.resolve calls and their outcomes
    table,       \* fqdn's table: its title and its rows so far
    rdi,         \* fqdn's position in rdtypes
    default_resolver,  \* the nameservers of resolver.default_resolver
    deviations,  \* resolutions so far that differ from the baseline outcome
    out,         \* what was printed
    exc          \* the exception that left main, "" if none

vars ==
    <<args, resolv, pc, calls, http, responses, resolved, table, rdi,
      default_resolver, deviations, out, exc>>

\* one thing printed: a message and its parameters, or a table and its rows
Say(msg, detail) == [msg |-> msg, detail |-> detail, rows |-> <<>>]

\* kind names the table: "asn_table", "prefix_table", "asn_detail_table", "dns_table"
Show(kind, title, rows) == [msg |-> kind, detail |-> title, rows |-> rows]

Optional(S) == {<<>>} \cup {<<v>> : v \in S}

ArgSpace ==
    [fqdn : Optional(Fqdns), nameserver : Optional(Nameservers),
     subnet : Optional({"10.0.0.0/24"}), target_host : Optional({"10.0.0.1:80"}),
     bgp : Optional(Tokens)]

InitWith(a) ==
    /\ args = a
    /\ resolv \in ResolvConfs
    /\ pc = "main"
    /\ calls = <<>>
    /\ http = <<>>
    /\ responses = <<>>
    /\ resolved = <<>>
    /\ table = [title |-> <<>>, rows |-> <<>>]
    /\ rdi = 1
    /\ default_resolver = <<>>
    /\ deviations = 0
    /\ out = <<>>
    /\ exc = ""

Init == \E a \in ArgSpace : InitWith(a)

(* ------------------------------------------------------------------ main *)

\* Python truth of a str argument that may be None
Truthy(opt) == opt /= <<>> /\ opt[1] /= <<>>

main ==
    /\ pc = "main"
    /\ IF /\ args.fqdn = <<>> /\ args.nameserver = <<>> /\ args.subnet = <<>>
          /\ args.target_host = <<>> /\ args.bgp = <<>>
       THEN /\ out' = Append(out, Say("no_arguments", <<>>))
            /\ pc' = "done"
            /\ UNCHANGED calls
       ELSE IF args.fqdn /= <<>> /\ args.nameserver /= <<>>
       THEN /\ calls' = Append(calls, [fn |-> "fqdn", _fqdn |-> args.fqdn[1],
                                       nameserver |-> <<args.nameserver[1]>>])
            /\ pc' = "fqdn"
            /\ UNCHANGED out
       ELSE IF args.fqdn /= <<>>
       THEN /\ calls' = Append(calls, [fn |-> "fqdn", _fqdn |-> args.fqdn[1],
                                       nameserver |-> <<>>])
            /\ pc' = "fqdn"
            /\ UNCHANGED out
       ELSE IF Truthy(args.bgp)
       THEN /\ calls' = Append(calls, [fn |-> "bgp", bgp |-> args.bgp[1]])
            /\ pc' = "bgp"
            /\ UNCHANGED out
       ELSE /\ pc' = "done"
            /\ UNCHANGED <<calls, out>>
    /\ UNCHANGED <<args, resolv, http, responses, resolved, table, rdi, default_resolver,
                   deviations, exc>>

(* ------------------------------------------------------------------- bgp *)

\* a variant of StatusOk that accepts every status from 200 up
StatusOkFrom200(code) == code >= HTTP_OK

\* response.status_code == 200
StatusOk(code) == code = HTTP_OK

\* the rows of the ASN table: one per entry of ipv4_prefixes
AsnRows(prefixes) ==
    [k \in 1..Len(prefixes) |->
        <<prefixes[k].name, prefixes[k].prefix, ToString(prefixes[k].cidr), CHECK>>]

\* what the ASN branch prints once requests.get has returned or raised
AsnOutput(asn, resp) ==
    IF resp.raised THEN <<Say("error", <<resp.error>>)>>
    ELSE IF StatusOk(resp.status_code)
    THEN LET asn_info == Get(resp.json, "data", EmptyObj)
             prefixes == Get(asn_info, "ipv4_prefixes", <<>>)
         IN  <<Show("asn_table", <<"ASN", ToString(asn), "Information">>, AsnRows(prefixes))>>
    ELSE <<>>

\* the keys prefix_info[...] reads while the summary row is built, in order
SummaryKeys == <<"name", "prefix", "ip", "description_short", "asns">>

\* the first subscript that raises KeyError, 0 if none does
MissingKey(prefix_info) ==
    IF \A k \in 1..Len(SummaryKeys) : SummaryKeys[k] \in DOMAIN prefix_info THEN 0
    ELSE CHOOSE k \in 1..Len(SummaryKeys) :
            /\ SummaryKeys[k] \notin DOMAIN prefix_info
            /\ \A j \in 1..(k - 1) : SummaryKeys[j] \in DOMAIN prefix_info

\* x if x else "UNKNOWN"
DescriptionCell(description_short) ==
    IF description_short /= "" THEN description_short ELSE UNKNOWN

SummaryRow(prefix_info) ==
    <<prefix_info.name, prefix_info.prefix, prefix_info.ip,
      DescriptionCell(prefix_info.description_short),
      ToString(Len(prefix_info.asns)), CHECK>>

\* the inner loop: one row per upstream of one owning ASN
UpstreamRows(asn) ==
    [k \in 1..Len(asn.prefix_upstreams) |->
        <<ToString(asn.asn), asn.name, asn.description, asn.country_code,
          ToString(asn.prefix_upstreams[k].asn), asn.prefix_upstreams[k].name>>]

RECURSIVE DetailRows(_)
\* the outer loop over prefix_info['asns']
DetailRows(asns) ==
    IF asns = <<>> THEN <<>>
    ELSE UpstreamRows(Head(asns)) \o DetailRows(Tail(asns))

\* what the prefix branch prints, and the exception it lets through
PrefixOutput(prefix, resp) ==
    IF resp.raised THEN [out |-> <<Say("error", <<resp.error>>)>>, exc |-> ""]
    ELSE IF StatusOk(resp.status_code)
    THEN LET prefix_info == Get(resp.json, "data", EmptyObj)
         IN  IF MissingKey(prefix_info) /= 0
             THEN [out |-> <<>>,
                   exc |-> "KeyError: " \o SummaryKeys[MissingKey(prefix_info)]]
             ELSE [out |-> <<Show("prefix_table", <<"Prefix", str_network(prefix), "Information">>,
                                  <<SummaryRow(prefix_info)>>),
                             Show("asn_detail_table",
                                  <<"ASN Information for", str_network(prefix)>>,
                                  DetailRows(prefix_info.asns))>>,
                   exc |-> ""]
    ELSE [out |-> <<>>, exc |-> ""]

\* the two prints of the except ValueError clause
InvalidValue(token) ==
    <<Say("invalid_value", token), Say("valid_asn_or_subnet_hint", <<>>)>>

\* the print of the else clause; asn is still None there
UnableToRetrieve == Say("unable_to_retrieve", <<"None">>)

AsnUrl(asn) == <<BGPVIEW, "asn", ToString(asn), "prefixes">>

PrefixUrl(prefix) == <<BGPVIEW, "prefix", str_network(prefix)>>

bgp ==
    /\ pc = "bgp"
    /\ LET token == calls[Len(calls)].bgp
       IN  IF isdigit(token)
           THEN IF int_raises(token)
                THEN /\ out' = out \o InvalidValue(token)
                     /\ pc' = "done"
                     /\ UNCHANGED <<http, responses, exc>>
                ELSE \E resp \in AsnResponses :
                        LET asn == int_value(token)
                        IN  /\ http' = Append(http, AsnUrl(asn))
                            /\ responses' = Append(responses, resp)
                            /\ out' = out \o <<Say("bgp_asn", <<ToString(asn)>>)>>
                                          \o AsnOutput(asn, resp)
                            /\ pc' = "done"
                            /\ UNCHANGED exc
           ELSE IF get_ip_or_none(token).ok
           THEN \E resp \in PrefixResponses :
                    LET prefix == ip_network(token)
                        result == PrefixOutput(prefix, resp)
                    IN  /\ http' = Append(http, PrefixUrl(prefix))
                        /\ responses' = Append(responses, resp)
                        /\ out' = out \o result.out
                        /\ exc' = result.exc
                        /\ pc' = IF result.exc = "" THEN "done" ELSE "crashed"
           ELSE /\ out' = Append(out, UnableToRetrieve)
                /\ pc' = "done"
                /\ UNCHANGED <<http, responses, exc>>
    /\ UNCHANGED <<args, resolv, calls, resolved, table, rdi, default_resolver, deviations>>

NextBgp == main \/ bgp

\* only --bgp may be supplied
InitBgp ==
    \E a \in ArgSpace :
        /\ a.fqdn = <<>> /\ a.nameserver = <<>> /\ a.subnet = <<>> /\ a.target_host = <<>>
        /\ InitWith(a)

SpecBgp == InitBgp /\ [][NextBgp]_vars

(* ------------------------------------------------------------------ fqdn *)

\* what resolver.resolve does for one record type: it returns the answer's
\* records, or raises one of dns.resolver's exceptions
Answers == {<<"r1">>, <<"r2", "r1">>}

Raised == {"NXDOMAIN", "NoAnswer", "NoNameservers", "LifetimeTimeout"}

DnsAnswer(rdatas) == [kind |-> "answer", rdatas |-> rdatas]

DnsRaise(e) == [kind |-> e, rdatas |-> <<>>]

DnsOutcomes == {DnsAnswer(a) : a \in Answers} \cup {DnsRaise(e) : e \in Raised}

\* the outcome of the record types that the bound MaxDeviations leaves alone
Baseline == DnsRaise("NoAnswer")

\* str(e), the text dnspython gives each exception; the query name is part
\* of three of them
str_exception(kind, qname, rdtype) ==
    CASE kind = "NXDOMAIN" -> <<"The DNS query name does not exist:">> \o qname
      [] kind = "NoAnswer" ->
            <<"The DNS response does not contain an answer to the question:">>
                \o qname \o <<"IN", rdtype>>
      [] kind = "NoNameservers" ->
            <<"All nameservers failed to answer the query">>
                \o qname \o <<"IN", rdtype, ":", "answered", "SERVFAIL">>
      [] kind = "LifetimeTimeout" -> <<"The resolution lifetime expired">>

\* marker in error_msg
Contains(error_msg, marker) == \E k \in 1..Len(error_msg) : error_msg[k] = marker

\* the test that decides whether a failure is shown
IsReported(error_msg) ==
    ~Contains(error_msg, "NXDOMAIN") /\ ~Contains(error_msg, "NODATA")

DnsRow(rdtype, data, status) == [rdtype |-> rdtype, data |-> data, status |-> status]

\* the body of the loop over rdtypes: the rows one resolution adds
RowsFor(rdtype, outcome, qname) ==
    IF outcome.kind = "answer"
    THEN [k \in 1..Len(outcome.rdatas) |-> DnsRow(rdtype, outcome.rdatas[k], <<CHECK>>)]
    ELSE LET error_msg == str_exception(outcome.kind, qname, rdtype)
         IN  IF IsReported(error_msg)
             THEN <<DnsRow(rdtype, "", <<"Error:">> \o error_msg)>>
             ELSE <<>>

\* if nameserver: neither None nor ""
NameserverGiven(nameserver) == nameserver /= <<>> /\ nameserver[1] /= ""

\* resolver.Resolver() on a configuration without nameservers raises
\* NoResolverConfiguration or returns an empty list, depending on the
\* platform and the dnspython release
ResolverRaises == IF resolv = <<>> THEN BOOLEAN ELSE {FALSE}

fqdn_setup ==
    /\ pc = "fqdn"
    /\ LET call == calls[Len(calls)]
           _fqdn == call._fqdn
           nameserver == call.nameserver
       IN  IF NameserverGiven(nameserver)
           THEN /\ out' = Append(out, Say("fqdn_header", <<_fqdn, nameserver[1]>>))
                /\ default_resolver' = <<nameserver[1]>>
                /\ table' = [title |-> <<_fqdn, nameserver[1]>>, rows |-> <<>>]
                /\ pc' = "resolve"
           ELSE \E raises \in ResolverRaises :
                    IF raises
                    THEN /\ out' = Append(out, Say("error", <<"NoResolverConfiguration">>))
                         /\ pc' = "done"
                         /\ UNCHANGED <<default_resolver, table>>
                    ELSE LET system_nameservers == resolv
                             shown == IF system_nameservers /= <<>>
                                      THEN system_nameservers[1] ELSE "unknown"
                         IN  /\ default_resolver' = system_nameservers
                             /\ IF system_nameservers = <<>>
                                THEN \* system_nameservers[0]: IndexError, caught below
                                     /\ out' = out \o <<Say("fqdn_header", <<_fqdn, shown>>),
                                                        Say("error", <<"IndexError">>)>>
                                     /\ pc' = "done"
                                     /\ UNCHANGED table
                                ELSE /\ out' = Append(out, Say("fqdn_header", <<_fqdn, shown>>))
                                     /\ table' = [title |-> <<_fqdn, system_nameservers[1]>>,
                                                  rows |-> <<>>]
                                     /\ pc' = "resolve"
    /\ UNCHANGED <<args, resolv, calls, http, responses, resolved, rdi, deviations, exc>>

fqdn_resolve ==
    /\ pc = "resolve"
    /\ rdi <= Len(rdtypes)
    /\ \E outcome \in DnsOutcomes :
        /\ outcome /= Baseline => deviations < MaxDeviations
        /\ deviations' = IF outcome = Baseline THEN deviations ELSE deviations + 1
        /\ resolved' = Append(resolved, [rdtype |-> rdtypes[rdi], outcome |-> outcome,
                                         nameservers |-> default_resolver])
        /\ table' = [table EXCEPT
                        !.rows = @ \o RowsFor(rdtypes[rdi], outcome,
                                              calls[Len(calls)]._fqdn)]
    /\ rdi' = rdi + 1
    /\ UNCHANGED <<args, resolv, pc, calls, http, responses, default_resolver, out, exc>>

fqdn_display ==
    /\ pc = "resolve"
    /\ rdi > Len(rdtypes)
    /\ out' = Append(out, Show("dns_table", table.title, table.rows))
    /\ pc' = "done"
    /\ UNCHANGED <<args, resolv, calls, http, responses, resolved, default_resolver,
                   table, rdi, deviations, exc>>

NextDns == main \/ fqdn_setup \/ fqdn_resolve \/ fqdn_display

\* --fqdn is supplied, with or without --nameserver
InitDns ==
    \E a \in ArgSpace :
        /\ a.fqdn /= <<>> /\ a.subnet = <<>> /\ a.target_host = <<>> /\ a.bgp = <<>>
        /\ InitWith(a)

SpecDns == InitDns /\ [][NextDns]_vars

(* ----------------------------------------------------- the whole program *)

Next == main \/ bgp \/ fqdn_setup \/ fqdn_resolve \/ fqdn_display

Spec == Init /\ [][Next]_vars

(* ================================================================ claims *)

Finished == pc \in {"done", "crashed"}

BgpCalled == calls /= <<>> /\ calls[1].fn = "bgp"

FqdnCalled == calls /= <<>> /\ calls[1].fn = "fqdn"

\* the tables of one kind that were printed, in order
Printed(kind) == SelectSeq(out, LAMBDA o : o.msg = kind)

Messages == [k \in 1..Len(out) |-> out[k].msg]

TableKinds == {"asn_table", "prefix_table", "asn_detail_table", "dns_table"}

NoTablePrinted == \A k \in 1..Len(out) : out[k].msg \notin TableKinds

(* C1: once main has dispatched, at most one pipeline was invoked; the DNS  *)
(* pipeline was invoked iff --fqdn was supplied, with the --nameserver      *)
(* value passed through when supplied; the routing-data pipeline was        *)
(* invoked iff --fqdn was absent and --bgp was supplied; and with no        *)
(* pipeline invoked there is no HTTP request and no DNS resolution.         *)
C1_ExactlyOnePipeline ==
    pc /= "main" =>
        /\ Len(calls) <= 1
        /\ FqdnCalled <=> args.fqdn /= <<>>
        /\ FqdnCalled =>
              /\ calls[1]._fqdn = args.fqdn[1]
              /\ calls[1].nameserver = args.nameserver
        /\ BgpCalled <=> (args.fqdn = <<>> /\ args.bgp /= <<>>)
        /\ BgpCalled => calls[1].bgp = args.bgp[1]
        /\ calls = <<>> => http = <<>> /\ resolved = <<>>

\* the claim's classification of a token, in the claim's order
TokenClass(t) ==
    IF AllDecimal(t) THEN "asn"
    ELSE IF ip_network(t).ok THEN "prefix"
    ELSE "invalid"

(* C2: when bgp has run on a token: a token of decimal digits only made     *)
(* exactly the request /asn/<its integer>/prefixes; otherwise a token that  *)
(* parses as an IP network made exactly the request /prefix/<canonical      *)
(* CIDR>; any other token made no request at all, printed no table and      *)
(* printed an error message.                                                *)
C2_Classification ==
    (Finished /\ BgpCalled) =>
        LET t == calls[1].bgp
        IN  CASE TokenClass(t) = "asn" ->
                    http = <<<<BGPVIEW, "asn", ToString(DecimalValue(t)), "prefixes">>>>
              [] TokenClass(t) = "prefix" ->
                    http = <<<<BGPVIEW, "prefix", str_network(ip_network(t))>>>>
              [] TokenClass(t) = "invalid" ->
                    /\ http = <<>>
                    /\ responses = <<>>
                    /\ NoTablePrinted
                    /\ \E k \in 1..Len(out) :
                          out[k].msg \in {"invalid_value", "unable_to_retrieve"}

\* the bare address 8.8.8.8 was looked up as the network 8.8.8.8/32
C2_Witness ==
    /\ pc = "done"
    /\ BgpCalled
    /\ calls[1].bgp = TokHost
    /\ http = <<<<BGPVIEW, "prefix", "8.8.8.8/32">>>>

\* data.ipv4_prefixes of a response body, the empty list when absent
ReturnedPrefixes(json) ==
    IF "data" \in DOMAIN json /\ "ipv4_prefixes" \in DOMAIN json.data
    THEN json.data.ipv4_prefixes
    ELSE <<>>

(* C6: when bgp has run on a token of decimal digits: exactly one request,  *)
(* /asn/<asn>/prefixes, was made and nothing was raised; after a 200 one    *)
(* table was printed with one row per entry of data.ipv4_prefixes (none     *)
(* when the list is absent or empty), in order, each <name, prefix, cidr,   *)
(* check mark>; after any other status, or a transport failure, no table    *)
(* was printed.                                                             *)
C6_AsnPath ==
    (Finished /\ BgpCalled /\ AllDecimal(calls[1].bgp)) =>
        /\ http = <<<<BGPVIEW, "asn", ToString(DecimalValue(calls[1].bgp)), "prefixes">>>>
        /\ Len(responses) = 1
        /\ pc = "done"
        /\ exc = ""
        /\ IF ~responses[1].raised /\ responses[1].status_code = 200
           THEN LET prefixes == ReturnedPrefixes(responses[1].json)
                    tables   == Printed("asn_table")
                IN  /\ Len(tables) = 1
                    /\ Len(tables[1].rows) = Len(prefixes)
                    /\ \A k \in 1..Len(prefixes) :
                          tables[1].rows[k] =
                              <<prefixes[k].name, prefixes[k].prefix,
                                ToString(prefixes[k].cidr), CHECK>>
                    /\ \A k \in 1..Len(out) :
                          out[k].msg \in {"bgp_asn", "asn_table"}
           ELSE NoTablePrinted

\* ASN 15169 answered 200 with two prefixes, shown as two rows in the
\* response's order
C6_Witness ==
    /\ pc = "done"
    /\ BgpCalled
    /\ calls[1].bgp = TokAsn
    /\ ~responses[1].raised
    /\ responses[1].status_code = 200
    /\ Len(ReturnedPrefixes(responses[1].json)) = 2
    /\ Len(Printed("asn_table")) = 1
    /\ Printed("asn_table")[1].rows =
          <<<<"CF-2", "1.0.0.0/22", "22", CHECK>>, <<"CF-1", "1.1.1.0/24", "24", CHECK>>>>

\* the rows fqdn's table holds for one record type
RowsOfType(rdtype) == SelectSeq(table.rows, LAMBDA r : r.rdtype = rdtype)

(* C3: a record type whose resolution failed with NXDOMAIN (the name does   *)
(* not exist) or NoAnswer (no record of this type) has no row in the        *)
(* table, neither a success row nor an error row.                           *)
C3_AbsenceAddsNoRow ==
    \A k \in 1..Len(resolved) :
        resolved[k].outcome.kind \in {"NXDOMAIN", "NoAnswer"}
            => RowsOfType(resolved[k].rdtype) = <<>>

(* C4: a record type whose resolution failed in any other way has exactly   *)
(* one row, with empty data and a status "Error: <non-empty text>", and     *)
(* the scan went on: a scan that has started ends only after all record     *)
(* types were resolved.                                                     *)
C4_OtherFailureAddsOneRow ==
    /\ \A k \in 1..Len(resolved) :
          resolved[k].outcome.kind \in {"NoNameservers", "LifetimeTimeout"} =>
              LET rows == RowsOfType(resolved[k].rdtype)
              IN  /\ Len(rows) = 1
                  /\ rows[1].data = ""
                  /\ Head(rows[1].status) = "Error:"
                  /\ Len(rows[1].status) > 1
    /\ (pc = "done" /\ resolved /= <<>>) => Len(resolved) = Len(rdtypes)

\* the rows the claim expects for the resolutions made: a success row per
\* returned record, in the resolver's order, and at most an error row
RECURSIVE RowsInOrder(_, _)
RowsInOrder(rows, k) ==
    IF k > Len(resolved) THEN rows = <<>>
    ELSE LET o == resolved[k].outcome
             n == IF o.kind = "answer" THEN Len(o.rdatas)
                  ELSE IF /\ Len(rows) > 0
                          /\ rows[1].data = ""
                          /\ rows[1].rdtype = resolved[k].rdtype
                       THEN 1 ELSE 0
         IN  /\ Len(rows) >= n
             /\ \A j \in 1..n : rows[j].rdtype = resolved[k].rdtype
             /\ o.kind = "answer" => \A j \in 1..n : rows[j].data = o.rdatas[j]
             /\ RowsInOrder(SubSeq(rows, n + 1, Len(rows)), k + 1)

(* C5: every run of the DNS pipeline, whatever the nameserver override and  *)
(* the system's resolver list (the empty list included), ends having        *)
(* issued exactly one resolution per record type, the 16 of rdtypes in      *)
(* their order, and shows the rows in record-type order and, within a       *)
(* type, in the resolver's order.                                           *)
C5_SixteenResolutionsInOrder ==
    (pc = "done" /\ FqdnCalled) =>
        /\ [k \in 1..Len(resolved) |-> resolved[k].rdtype] = rdtypes
        /\ Len(Printed("dns_table")) = 1
        /\ RowsInOrder(Printed("dns_table")[1].rows, 1)

\* bgp ran the prefix branch and the API answered 200 with a data object
\* that holds name, prefix, ip and asns
PrefixAnswered ==
    /\ Finished
    /\ BgpCalled
    /\ Len(http) = 1
    /\ http[1][2] = "prefix"
    /\ ~responses[1].raised
    /\ responses[1].status_code = 200
    /\ "data" \in DOMAIN responses[1].json
    /\ {"name", "prefix", "ip", "asns"} \subseteq DOMAIN responses[1].json.data

(* C7: after a 200 on the prefix path the summary row is produced, and its  *)
(* description is "UNKNOWN" when description_short is the empty string or   *)
(* absent, and the field's value otherwise.                                 *)
C7_DescriptionOrUnknown ==
    PrefixAnswered =>
        LET prefix_info == responses[1].json.data
            tables == Printed("prefix_table")
        IN  /\ Len(tables) = 1
            /\ Len(tables[1].rows) = 1
            /\ tables[1].rows[1][4] =
                  IF "description_short" \notin DOMAIN prefix_info
                  THEN "UNKNOWN"
                  ELSE IF prefix_info.description_short = "" THEN "UNKNOWN"
                  ELSE prefix_info.description_short

RECURSIVE UpstreamCount(_)
\* the sum of the lengths of the prefix_upstreams lists
UpstreamCount(asns) ==
    IF asns = <<>> THEN 0
    ELSE Len(Head(asns).prefix_upstreams) + UpstreamCount(Tail(asns))

(* C8: after a 200 on the prefix path the detail table holds one row per    *)
(* (owning ASN, upstream) pair, by owning ASN and then by upstream, so as   *)
(* many rows as the prefix_upstreams lists hold entries, and the summary    *)
(* row's count is the number of entries of asns.                            *)
C8_DetailRowsPerUpstream ==
    PrefixAnswered =>
        LET asns == responses[1].json.data.asns
            summary == Printed("prefix_table")
            detail == Printed("asn_detail_table")
        IN  /\ Len(summary) = 1
            /\ summary[1].rows[1][5] = ToString(Len(asns))
            /\ Len(detail) = 1
            /\ Len(detail[1].rows) = UpstreamCount(asns)
            /\ \A i \in 1..Len(asns) : \A j \in 1..Len(asns[i].prefix_upstreams) :
                  LET row == detail[1].rows[UpstreamCount(SubSeq(asns, 1, i - 1)) + j]
                  IN  /\ row[1] = ToString(asns[i].asn)
                      /\ row[5] = ToString(asns[i].prefix_upstreams[j].asn)
                      /\ row[6] = asns[i].prefix_upstreams[j].name

(* C9: every invalid token, digit-like but not an integer or not an IP      *)
(* network, is reported with the one generic message: the value passed is   *)
(* invalid, followed by the hint to pass a valid ASN or IP address/subnet.  *)
C9_OneGenericMessage ==
    (Finished /\ BgpCalled /\ TokenClass(calls[1].bgp) = "invalid") =>
        Messages = <<"invalid_value", "valid_asn_or_subnet_hint">>

(* C10: no exception leaves a pipeline or main, whatever the input and      *)
(* whatever the external calls answer.                                      *)
C10_NothingIsFatal == pc /= "crashed" /\ exc = ""
====
